---- MODULE Spec2Model ----
(***************************************************************************)
(* EventHub-Chatbot: the query-filter extraction and scored retrieval of   *)
(* components/search/search.py and the line-oriented JSON-RPC dispatcher   *)
(* of mcp_server.py, as a state machine.                                   *)
(*                                                                         *)
(* Text is a sequence of one-character strings.  A JSON value is a tagged  *)
(* record; a Python dict is a function from its keys.                      *)
(***************************************************************************)
EXTENDS Integers, Sequences, FiniteSets, TLC

VARIABLES
    events,      \* search.py `events`: the backing event list
    collection,  \* search.py `collection`: the indexed entries, in insertion order
    indexState,  \* lifecycle of the collection: not_built / building / built / failed
    tools,       \* SimpleMCPServer.tools: the descriptors, in insertion order
    pc,          \* position of mcp_server.main: not_started / main_init / run / stopped
    log,         \* one entry per line read by run(): the line and what was printed
    sim,         \* cosine score (in hundredths) of the query against each event id
    rank,        \* order in which the vector store returns its candidates
    query,       \* input of a direct extraction / search call
    user_id,     \* caller scope of a direct search call
    phase,       \* position of a direct call: ready / done
    cleaned,     \* extract_filters_from_query: the cleaned query returned
    filters,     \* extract_filters_from_query: the filter dict returned
    results,     \* perform_search: what the direct call returned or raised
    indexAtRead, \* indexState as it was when run() handled its latest line
    hook,        \* position of app.startup_event: importing / initialize / thread / mcp / done
    refresher,   \* position of the periodic_refresh thread: not_started / sleeping /
                 \* refreshing / except / stopped
    builds,      \* index builds run so far by the module import and initialize_embeddings
    errors       \* the initializations whose failure was logged: startup / dispatcher

vars == <<events, collection, indexState, tools, pc, log, sim, rank,
          query, user_id, phase, cleaned, filters, results, indexAtRead,
          hook, refresher, builds, errors>>

(***************************************************************************)
(* Characters and Python's str methods                                     *)
(***************************************************************************)
Lowers == <<"a","b","c","d","e","f","g","h","i","j","k","l","m",
            "n","o","p","q","r","s","t","u","v","w","x","y","z">>
Uppers == <<"A","B","C","D","E","F","G","H","I","J","K","L","M",
            "N","O","P","Q","R","S","T","U","V","W","X","Y","Z">>
Digits == {"0","1","2","3","4","5","6","7","8","9"}
Spaces == {" ", "\t", "\n"}

LowerSet == {Lowers[i] : i \in 1..26}
UpperSet == {Uppers[i] : i \in 1..26}

IsAlpha(c) == c \in LowerSet \/ c \in UpperSet
IsSpace(c) == c \in Spaces
\* \w of the re module
IsWordChar(c) == IsAlpha(c) \/ c \in Digits \/ c = "_"

ToLower == [c \in UpperSet |-> Lowers[CHOOSE i \in 1..26 : Uppers[i] = c]]
ToUpper == [c \in LowerSet |-> Uppers[CHOOSE i \in 1..26 : Lowers[i] = c]]

LowerChar(c) == IF c \in UpperSet THEN ToLower[c] ELSE c
UpperChar(c) == IF c \in LowerSet THEN ToUpper[c] ELSE c

\* str.lower()
StrLower(s) == [i \in 1..Len(s) |-> LowerChar(s[i])]

\* str.title(): a cased character is upper-cased after an uncased one (or at
\* the start) and lower-cased after a cased one
StrTitle(s) == [i \in 1..Len(s) |->
                  IF i > 1 /\ IsAlpha(s[i-1]) THEN LowerChar(s[i]) ELSE UpperChar(s[i])]

RECURSIVE LStrip(_)
LStrip(s) == IF s # <<>> /\ IsSpace(Head(s)) THEN LStrip(Tail(s)) ELSE s

RECURSIVE RStrip(_)
RStrip(s) == IF s # <<>> /\ IsSpace(s[Len(s)])
             THEN RStrip(SubSeq(s, 1, Len(s) - 1))
             ELSE s

\* str.strip()
StrStrip(s) == RStrip(LStrip(s))

\* s[i..] starts with p, ignoring case (p is lower case)
MatchAtCI(s, i, p) ==
    /\ i + Len(p) - 1 <= Len(s)
    /\ \A k \in 1..Len(p) : LowerChar(s[i + k - 1]) = p[k]

\* `p in s.lower()`
ContainsCI(s, p) == \E i \in 1..Len(s) : MatchAtCI(s, i, p)

\* \b on both sides of a match of the word p at s[i..]
WordBoundaries(s, i, p) ==
    /\ (i = 1 \/ ~IsWordChar(s[i-1]))
    /\ (i + Len(p) > Len(s) \/ ~IsWordChar(s[i + Len(p)]))

\* re.sub(p, "", s, flags=re.IGNORECASE) for a literal p: the non-overlapping
\* matches are removed left to right
RECURSIVE SubLiteralFrom(_, _, _)
SubLiteralFrom(s, i, p) ==
    IF i > Len(s) THEN <<>>
    ELSE IF MatchAtCI(s, i, p) THEN SubLiteralFrom(s, i + Len(p), p)
    ELSE <<s[i]>> \o SubLiteralFrom(s, i + 1, p)

ReSubLiteral(p, s) == SubLiteralFrom(s, 1, p)

\* re.sub(r"\bp\b", "", s, flags=re.IGNORECASE) for a word p
RECURSIVE SubWordFrom(_, _, _)
SubWordFrom(s, i, p) ==
    IF i > Len(s) THEN <<>>
    ELSE IF MatchAtCI(s, i, p) /\ WordBoundaries(s, i, p)
         THEN SubWordFrom(s, i + Len(p), p)
    ELSE <<s[i]>> \o SubWordFrom(s, i + 1, p)

ReSubWord(p, s) == SubWordFrom(s, 1, p)

\* re.sub(r'\s+', ' ', s)
RECURSIVE CollapseFrom(_, _)
CollapseFrom(s, i) ==
    IF i > Len(s) THEN <<>>
    ELSE IF IsSpace(s[i])
         THEN IF i > 1 /\ IsSpace(s[i-1]) THEN CollapseFrom(s, i + 1)
              ELSE <<" ">> \o CollapseFrom(s, i + 1)
    ELSE <<s[i]>> \o CollapseFrom(s, i + 1)

CollapseSpaces(s) == CollapseFrom(s, 1)

\* the standalone word p occurs in s (a match of \bp\b, ignoring case)
HasWord(s, p) == \E i \in 1..Len(s) : MatchAtCI(s, i, p) /\ WordBoundaries(s, i, p)

(***************************************************************************)
(* extract_filters_from_query                                              *)
(***************************************************************************)
W_free == <<"f","r","e","e">>
W_paid == <<"p","a","i","d">>
W_in == <<"i","n">>

\* the dict filters[k] = v (a later assignment overwrites an earlier one)
SetKey(d, k, v) == [x \in (DOMAIN d) \cup {k} |-> IF x = k THEN v ELSE d[x]]

EmptyDict == [x \in {} |-> 0]

\* a working state of the extraction: the query text and the filter dict
XState(q, f) == [q |-> q, f |-> f]

\* lines 262-264
StepFree(st) ==
    IF ContainsCI(st.q, W_free)
    THEN XState(ReSubWord(W_free, st.q), SetKey(st.f, "isFree", TRUE))
    ELSE st

\* lines 265-267
StepPaid(st) ==
    IF ContainsCI(st.q, W_paid)
    THEN XState(ReSubWord(W_paid, st.q), SetKey(st.f, "isFree", FALSE))
    ELSE st

\* [A-Za-z\s]
IsLocChar(c) == IsAlpha(c) \/ IsSpace(c)

\* the end of the longest run of [A-Za-z\s] that starts at s[i]
RECURSIVE RunEnd(_, _)
RunEnd(s, i) == IF i <= Len(s) /\ IsLocChar(s[i]) THEN RunEnd(s, i + 1) ELSE i - 1

\* re.search(r"in\s+([A-Za-z\s]+)", s, re.IGNORECASE) matches at i: "in", one
\* white space at least, and one more character of the class at least (the
\* \s+ gives back its last white space when no letter follows)
LocMatchAt(s, i) ==
    /\ MatchAtCI(s, i, W_in)
    /\ i + 2 <= Len(s)
    /\ IsSpace(s[i + 2])
    /\ RunEnd(s, i + 2) >= i + 3

HasLocMatch(s) == \E i \in 1..Len(s) : LocMatchAt(s, i)

\* the leftmost match
LocMatchPos(s) == CHOOSE i \in 1..Len(s) :
                    LocMatchAt(s, i) /\ \A j \in 1..(i-1) : ~LocMatchAt(s, j)

\* location_match.group(0)
LocGroup0(s) == SubSeq(s, LocMatchPos(s), RunEnd(s, LocMatchPos(s) + 2))

\* location_match.group(1).strip(): what follows "in" and the white space; the
\* strip makes the share of the \s+ irrelevant
LocGroup1Stripped(s) ==
    StrStrip(SubSeq(s, LocMatchPos(s) + 2, RunEnd(s, LocMatchPos(s) + 2)))

\* StepLocation as it would be without the re.sub of line 273
StepLocationKeepsText(st) ==
    IF HasLocMatch(st.q)
    THEN XState(st.q, SetKey(st.f, "location", StrTitle(LocGroup1Stripped(st.q))))
    ELSE st

\* lines 270-273; group(0) holds letters and white space only, so as a
\* pattern it is a literal
StepLocation(st) ==
    IF HasLocMatch(st.q)
    THEN XState(ReSubLiteral(StrLower(LocGroup0(st.q)), st.q),
                SetKey(st.f, "location", StrTitle(LocGroup1Stripped(st.q))))
    ELSE st

\* lines 276-282: the date patterns in dict order, each with its date as a
\* number of days after today (wd is today.weekday())
P_today == <<"t","o","d","a","y">>
P_tomorrow == <<"t","o","m","o","r","r","o","w">>
P_this_weekend == <<"t","h","i","s"," ","w","e","e","k","e","n","d">>
P_next_week == <<"n","e","x","t"," ","w","e","e","k">>

DatePatterns(wd) == << [p |-> P_today, days |-> 0],
                       [p |-> P_tomorrow, days |-> 1],
                       [p |-> P_this_weekend, days |-> (5 - wd) % 7],
                       [p |-> P_next_week, days |-> 7] >>

\* lines 283-286
RECURSIVE StepDates(_, _, _)
StepDates(st, pats, k) ==
    IF k > Len(pats) THEN st
    ELSE IF ContainsCI(st.q, pats[k].p)
         THEN StepDates(XState(ReSubLiteral(pats[k].p, st.q),
                               SetKey(st.f, "date", pats[k].days)),
                        pats, k + 1)
    ELSE StepDates(st, pats, k + 1)

\* lines 289-290
categories == <<
    <<"t","e","c","h","n","o","l","o","g","y">>,
    <<"m","u","s","i","c">>,
    <<"b","u","s","i","n","e","s","s">>,
    <<"s","p","o","r","t","s">>,
    <<"e","d","u","c","a","t","i","o","n">>,
    <<"f","o","o","d"," ","&"," ","d","r","i","n","k">>,
    <<"g","a","m","i","n","g">>,
    <<"h","e","a","l","t","h"," ","&"," ","w","e","l","l","n","e","s","s">> >>

\* lines 291-294; no vocabulary entry holds a regex metacharacter
RECURSIVE StepCategories(_, _)
StepCategories(st, k) ==
    IF k > Len(categories) THEN st
    ELSE IF ContainsCI(st.q, categories[k])
         THEN StepCategories(XState(ReSubLiteral(categories[k], st.q),
                                    SetKey(st.f, "category", StrTitle(categories[k]))),
                             k + 1)
    ELSE StepCategories(st, k + 1)

\* lines 296-297
StepFinish(st) == XState(StrStrip(CollapseSpaces(st.q)), st.f)

\* extract_filters_from_query(query), called on a day whose weekday() is wd:
\* the pair (query, filters) it returns
extract_filters_from_query(q, wd) ==
    StepFinish(
      StepCategories(
        StepDates(StepLocation(StepPaid(StepFree(XState(q, EmptyDict)))),
                  DatePatterns(wd), 1),
        1))

(***************************************************************************)
(* Events, metadata and the collection (search.py lines 38-253)            *)
(***************************************************************************)
\* dict.get(k, default)
Get(d, k, default) == IF k \in DOMAIN d THEN d[k] ELSE default

T_Paris == <<"P","a","r","i","s">>
T_Rome == <<"R","o","m","e">>
T_Music == <<"M","u","s","i","c">>
T_Gaming == <<"G","a","m","i","n","g">>

\* an event of the backing list: the fields the retrieval filter and the
\* tool payloads read.  An event without a "user_id" key is the usual case.
Event(id, free, loc, cat) ==
    [_id |-> id, title |-> "Event " \o ToString(id), isFree |-> free,
     location |-> loc, category |-> cat]

OwnedEvent(id, owner, free, loc, cat) ==
    [_id |-> id, title |-> "Event " \o ToString(id), isFree |-> free,
     location |-> loc, category |-> cat, user_id |-> owner]

\* lines 224-238: the flattened metadata of an event
Metadata(e) ==
    [user_id |-> Get(e, "user_id", "global"),
     _id |-> e._id,
     title |-> e.title,
     location |-> e.location,
     isFree |-> e.isFree,
     category |-> e.category]

\* line 240: the entry id, scope and event id
EntryId(e) == <<Get(e, "user_id", "global"), e._id>>

\* BuildCollection as it would be if the module added no entry to the
\* collection it created
BuildCollectionEmpty(evs) == <<>>

\* lines 208-249: one entry per event, in list order
BuildCollection(evs) ==
    [i \in 1..Len(evs) |-> [id |-> EntryId(evs[i]), metadata |-> Metadata(evs[i])]]

(***************************************************************************)
(* perform_search (search.py lines 302-358)                                *)
(***************************************************************************)
n_results == 10

Eq(k, v) == [key |-> k, value |-> v]

\* line 309
user_or_filter(u) == << Eq("user_id", "global"), Eq("user_id", u) >>

\* lines 312-318
other_filters(f) ==
    (IF "isFree" \in DOMAIN f THEN << Eq("isFree", f["isFree"]) >> ELSE <<>>)
    \o (IF "location" \in DOMAIN f THEN << Eq("location", f["location"]) >> ELSE <<>>)
    \o (IF "category" \in DOMAIN f THEN << Eq("category", f["category"]) >> ELSE <<>>)

\* where_filter as it would be without the scope clause
where_filter_no_scope(f, u) == [op |-> "$and", args |-> other_filters(f)]

\* lines 321-326
where_filter(f, u) ==
    IF other_filters(f) # <<>>
    THEN [op |-> "$and",
          args |-> << [op |-> "$or", args |-> user_or_filter(u)] >> \o other_filters(f)]
    ELSE [op |-> "$or", args |-> user_or_filter(u)]

\* the vector store's reading of a where document: an equality on one
\* metadata key, or $and / $or over two levels of sub-documents
LeafMatches(md, w) == md[w.key] = w.value

InnerMatches(md, w) ==
    IF "op" \in DOMAIN w
    THEN IF w.op = "$and"
         THEN \A i \in 1..Len(w.args) : LeafMatches(md, w.args[i])
         ELSE \E i \in 1..Len(w.args) : LeafMatches(md, w.args[i])
    ELSE LeafMatches(md, w)

WhereMatches(md, w) ==
    IF "op" \in DOMAIN w
    THEN IF w.op = "$and"
         THEN \A i \in 1..Len(w.args) : InnerMatches(md, w.args[i])
         ELSE \E i \in 1..Len(w.args) : InnerMatches(md, w.args[i])
    ELSE LeafMatches(md, w)

Prefix(s, n) == SubSeq(s, 1, IF Len(s) < n THEN Len(s) ELSE n)

\* CollectionQuery as it would be if the store returned every entry that
\* satisfies the filter
CollectionQueryUncapped(coll, rk, w, n) ==
    LET pos(id) == CHOOSE i \in 1..Len(coll) : coll[i].metadata._id = id
        present(id) == \E i \in 1..Len(coll) : coll[i].metadata._id = id
        keep(id) == present(id) /\ WhereMatches(coll[pos(id)].metadata, w)
        ids == SelectSeq(rk, keep)
    IN  [k \in 1..Len(ids) |-> coll[pos(ids[k])].metadata]

\* collection.query(...): the entries that satisfy the filter, in the order
\* the store ranks them (rk lists event ids, nearest first), n at most
CollectionQuery(coll, rk, w, n) ==
    LET pos(id) == CHOOSE i \in 1..Len(coll) : coll[i].metadata._id = id
        present(id) == \E i \in 1..Len(coll) : coll[i].metadata._id = id
        keep(id) == present(id) /\ WhereMatches(coll[pos(id)].metadata, w)
        ids == SelectSeq(rk, keep)
    IN  [k \in 1..Len(Prefix(ids, n)) |-> coll[pos(ids[k])].metadata]

\* InsertDesc as it would be if an equal score went ahead of the entries
\* already placed
RECURSIVE InsertDescUnstable(_, _)
InsertDescUnstable(sorted, x) ==
    IF sorted = <<>> THEN <<x>>
    ELSE IF Head(sorted).cosine_score > x.cosine_score
         THEN <<Head(sorted)>> \o InsertDescUnstable(Tail(sorted), x)
    ELSE <<x>> \o sorted

\* list.sort(key=..., reverse=True): descending and stable (insertion sort)
RECURSIVE InsertDesc(_, _)
InsertDesc(sorted, x) ==
    IF sorted = <<>> THEN <<x>>
    ELSE IF Head(sorted).cosine_score >= x.cosine_score
         THEN <<Head(sorted)>> \o InsertDesc(Tail(sorted), x)
    ELSE <<x>> \o sorted

RECURSIVE SortDescFrom(_, _, _)
SortDescFrom(s, k, acc) ==
    IF k > Len(s) THEN acc ELSE SortDescFrom(s, k + 1, InsertDesc(acc, s[k]))

SortDesc(s) == SortDescFrom(s, 1, <<>>)

\* lines 348-351
ScoredResults(metadatas, score) ==
    [k \in 1..Len(metadatas) |->
        [metadata |-> metadatas[k], cosine_score |-> score[metadatas[k]._id]]]

\* lines 353-354
RankedMetadatas(scored) ==
    LET s == SortDesc(scored) IN [k \in 1..Len(s) |-> s[k].metadata]

Returned(v) == [raised |-> FALSE, value |-> v]
Raised(m) == [raised |-> TRUE, message |-> m]

\* perform_search(query, user_id) against the collection coll: q is the JSON
\* value passed as query, u the caller scope, wd today's weekday; exists says
\* whether the collection exists, extFails whether the embedder or the store
\* raises.  The value returned, or the exception re-raised at line 358.
perform_search(q, u, wd, coll, exists, rk, score, extFails) ==
    IF q.t # "str" THEN Raised("'" \o q.t \o "' object has no attribute 'lower'")
    ELSE IF extFails THEN Raised("embedding failed")
    ELSE IF ~exists THEN Raised("Collection event_content does not exist.")
    ELSE LET x == extract_filters_from_query(q.chars, wd)
             metadatas == CollectionQuery(coll, rk, where_filter(x.f, u), n_results)
         IN  IF metadatas = <<>> THEN Returned(<<>>)
             ELSE Returned(RankedMetadatas(ScoredResults(metadatas, score)))

\* get_all_events() of search.py, lines 363-376: the backing list itself
get_all_events == events

(***************************************************************************)
(* JSON values and the dispatcher (mcp_server.py)                          *)
(***************************************************************************)
\* a JSON value after json.loads, tagged with its Python type; a string is
\* held either as a name (s) or, when its characters matter, as text (chars)
JNull == [t |-> "NoneType"]
JNum(n) == [t |-> "int", n |-> n]
JStr(s) == [t |-> "str", s |-> s]
JText(c) == [t |-> "str", chars |-> c]
JList(l) == [t |-> "list", l |-> l]
JDict(d) == [t |-> "dict", d |-> d]

\* str(v) inside an f-string
PyStr(v) == IF v.t = "NoneType" THEN "None"
            ELSE IF v.t = "int" THEN ToString(v.n)
            ELSE IF v.t = "str" /\ "s" \in DOMAIN v THEN v.s
            ELSE "<" \o v.t \o ">"

NoAttribute(v, attr) == "'" \o v.t \o "' object has no attribute '" \o attr \o "'"

\* json.dumps(x): the text that encodes x; a plain message is not JSON
JsonDumps(x) == [json |-> x]
PlainText(m) == [plain |-> m]

TextContent(text) == [content |-> << [type |-> "text", text |-> text] >>]

\* lines 17-35: the two descriptors, in insertion order
ToolDescriptors ==
    << [name |-> "search_events",
        description |-> "Search for events using natural language query with filters",
        inputSchema |-> [type |-> "object",
                         properties |-> {"query", "user_id"},
                         required |-> <<"query">>]],
       [name |-> "get_all_events",
        description |-> "Get all available events without filtering",
        inputSchema |-> [type |-> "object",
                         properties |-> {},
                         required |-> <<>>]] >>

\* lines 83-93
formatted_event(md) ==
    [title |-> Get(md, "title", ""),
     category |-> Get(md, "category", <<>>),
     location |-> Get(md, "location", <<>>),
     isFree |-> Get(md, "isFree", FALSE)]

\* lines 96-100
SearchResponseData(q, formatted_results) ==
    [query |-> q,
     results_count |-> Len(formatted_results),
     events |-> Prefix(formatted_results, 10)]

\* SimpleMCPServer.search_events(args), lines 74-115
search_events(args, wd, extFails) ==
    IF args.t # "dict" THEN Raised(NoAttribute(args, "get"))
    ELSE LET q == Get(args.d, "query", JText(<<>>))
             u == Get(args.d, "user_id", JStr("default"))
             r == perform_search(q, u.s, wd, collection.entries, collection.exists,
                                 rank, sim, extFails)
         IN  IF r.raised
             THEN Returned(TextContent(PlainText("Error searching events: " \o r.message)))
             ELSE Returned(TextContent(JsonDumps(
                     SearchResponseData(q,
                        [k \in 1..Len(r.value) |-> formatted_event(r.value[k])]))))

\* AllEventsResponseData as it would be with the count taken of the page
AllEventsCountsPage(evs) ==
    [total_events |-> Len(Prefix(evs, 20)), events |-> Prefix(evs, 20)]

\* lines 121-124
AllEventsResponseData(evs) ==
    [total_events |-> Len(evs), events |-> Prefix(evs, 20)]

\* SimpleMCPServer.get_all_events(args), lines 117-137
get_all_events_tool(args) ==
    Returned(TextContent(JsonDumps(AllEventsResponseData(get_all_events))))

\* ToolsListResult as it would be with a descriptor missing
ToolsListFirstOnly(ts) == [tools |-> SubSeq(ts, 1, 1)]

\* line 45
ToolsListResult(ts) == [tools |-> ts]

\* lines 61-65 and 68-72
ResultEnvelope(id, result) == [jsonrpc |-> "2.0", id |-> id, result |-> result]
ErrorEnvelope(id, message) ==
    [jsonrpc |-> "2.0", id |-> id, error |-> [code |-> -1, message |-> message]]

\* lines 47-56
CallTool(params, wd, extFails) ==
    IF params.t # "dict" THEN Raised(NoAttribute(params, "get"))
    ELSE LET tool_name == Get(params.d, "name", JNull)
             tool_args == Get(params.d, "arguments", JDict(EmptyDict))
         IN  IF tool_name = JStr("search_events")
             THEN search_events(tool_args, wd, extFails)
             ELSE IF tool_name = JStr("get_all_events")
             THEN get_all_events_tool(tool_args)
             ELSE Raised("Unknown tool: " \o PyStr(tool_name))

\* ErrorId as it would be with the id dropped from the error envelope
ErrorIdLost(request) == JNull

\* the id an error envelope carries: request.get("id"), line 70
ErrorId(request) == Get(request.d, "id", JNull)

\* handle_request as it would be without its try/except: the ValueError of
\* an unknown tool or method leaves the handler
handle_request_uncaught(request, wd, extFails) ==
    IF request.t # "dict" THEN Raised(NoAttribute(request, "get"))
    ELSE LET method == Get(request.d, "method", JNull)
             params == Get(request.d, "params", JDict(EmptyDict))
             request_id == Get(request.d, "id", JNull)
             body == IF method = JStr("tools/list")
                     THEN Returned(ToolsListResult(tools))
                     ELSE IF method = JStr("tools/call")
                     THEN CallTool(params, wd, extFails)
                     ELSE Raised("Unknown method: " \o PyStr(method))
         IN  IF body.raised
             THEN body
             ELSE Returned(ResultEnvelope(request_id, body.value))

\* SimpleMCPServer.handle_request(request), lines 37-72: the response
\* returned; a request that is no dict makes the except clause itself raise
handle_request(request, wd, extFails) ==
    IF request.t # "dict" THEN Raised(NoAttribute(request, "get"))
    ELSE LET method == Get(request.d, "method", JNull)
             params == Get(request.d, "params", JDict(EmptyDict))
             request_id == Get(request.d, "id", JNull)
             body == IF method = JStr("tools/list")
                     THEN Returned(ToolsListResult(tools))
                     ELSE IF method = JStr("tools/call")
                     THEN CallTool(params, wd, extFails)
                     ELSE Raised("Unknown method: " \o PyStr(method))
         IN  IF body.raised
             THEN Returned(ErrorEnvelope(ErrorId(request), body.message))
             ELSE Returned(ResultEnvelope(request_id, body.value))

\* a line of standard input: end of stream, or a line with what json.loads
\* makes of it
EndOfStream == [kind |-> "eof"]
BadJson == [kind |-> "line", decodes |-> FALSE]
JsonLine(v) == [kind |-> "line", decodes |-> TRUE, value |-> v]

\* the body of the loop of run(), lines 144-162, for a line that is not the
\* end of the stream: the lines printed
RunOutput(line, wd, extFails) ==
    IF ~line.decodes THEN <<>>
    ELSE LET r == handle_request(line.value, wd, extFails)
         IN  IF r.raised
             THEN << ErrorEnvelope(JNull, r.message) >>
             ELSE << r.value >>

(***************************************************************************)
(* Bounds and input sets                                                   *)
(***************************************************************************)
MaxStore == 21    \* largest backing list of the dispatcher specification
MaxLines == 2     \* lines read from standard input
MaxEvents == 2    \* largest backing list of the search specification
MaxTokens == 4    \* tokens of a query of the extraction specification

\* lengths of the backing list of the dispatcher specification: none, one,
\* around the cap of a search and around the page of get_all_events
StoreSizes == {0, 1, n_results, n_results + 1, MaxStore - 1, MaxStore}

\* today.weekday() of the extraction specification: a Monday, a Saturday and
\* a Sunday, whose "this weekend" lies 5, 0 and 6 days ahead
Weekdays == {0, 5, 6}

\* today.weekday() of the other specifications, whose queries hold no date
\* keyword and whose retrieval filter does not read the date
Monday == 0

\* scores in hundredths around the documented threshold
similarity_threshold == 20
ScoreValues == {similarity_threshold - 1, similarity_threshold, similarity_threshold + 1}

Q_free_music_in_paris ==
    <<"f","r","e","e"," ","m","u","s","i","c"," ","i","n"," ","P","a","r","i","s">>
Q_jazz == <<"j","a","z","z">>
Q_paid_gaming == <<"P","a","i","d"," ","g","a","m","i","n","g">>
Q_free_tech_conference ==
    <<"f","r","e","e"," ","t","e","c","h"," ","c","o","n","f","e","r","e","n","c","e",
      " ","i","n"," ","S","a","n"," ","F","r","a","n","c","i","s","c","o">>

\* the backing list of the dispatcher specification: n events that differ in
\* owner, price, place and category
SampleEvent(i) ==
    IF i % 3 = 0
    THEN OwnedEvent(i, IF i % 2 = 0 THEN "u1" ELSE "u2", TRUE, T_Paris, T_Music)
    ELSE Event(i, i % 4 # 1, IF i % 5 = 0 THEN T_Rome ELSE T_Paris,
               IF i % 7 = 0 THEN T_Gaming ELSE T_Music)

SampleEvents(n) == [i \in 1..n |-> SampleEvent(i)]

SampleScore(i) == (similarity_threshold - 1) + (i % 3)

\* the requests of the dispatcher specification
ToolCall(name, arguments) ==
    ("method" :> JStr("tools/call"))
    @@ ("params" :> JDict(("name" :> JStr(name)) @@ ("arguments" :> arguments)))

WithId(d, id) == d @@ ("id" :> id)

InputLines == <<
    EndOfStream,
    BadJson,
    JsonLine(JList(<<>>)),
    JsonLine(JDict(WithId("method" :> JStr("tools/list"), JNum(7)))),
    JsonLine(JDict("method" :> JStr("tools/list"))),
    JsonLine(JDict(WithId(ToolCall("search_events",
        JDict(("query" :> JText(Q_free_music_in_paris)) @@ ("user_id" :> JStr("u1")))),
        JStr("a")))),
    JsonLine(JDict(WithId(ToolCall("search_events",
        JDict("query" :> JText(Q_jazz))), JNum(3)))),
    JsonLine(JDict(WithId(ToolCall("search_events",
        JDict("query" :> JNum(5))), JNum(4)))),
    JsonLine(JDict(WithId(ToolCall("get_all_events", JDict(EmptyDict)), JNum(8)))),
    JsonLine(JDict(WithId(ToolCall("nope", JDict(EmptyDict)), JStr("b")))),
    JsonLine(JDict("method" :> JStr("ping"))),
    JsonLine(JDict(WithId(("method" :> JStr("tools/call")) @@ ("params" :> JStr("x")),
                          JNum(10)))) >>

(***************************************************************************)
(* The dispatcher process: main() and run() of mcp_server.py, and the      *)
(* refresh of the collection that app.py schedules                         *)
(***************************************************************************)
NoCall == /\ query = <<>> /\ user_id = "" /\ phase = "none"
          /\ cleaned = <<>> /\ filters = EmptyDict /\ results = Returned(<<>>)

Init ==
    /\ \E n \in StoreSizes :
          /\ events = SampleEvents(n)
          /\ sim = [i \in 1..n |-> SampleScore(i)]
          /\ rank = [i \in 1..n |-> n + 1 - i]
    /\ collection = [exists |-> TRUE, entries |-> BuildCollection(events)]
    /\ indexState = "built"
    /\ tools = ToolDescriptors
    /\ pc = "main_init"
    /\ log = <<>>
    /\ indexAtRead = "built"
    /\ hook = "done"
    /\ refresher = "sleeping"
    /\ builds = 1
    /\ errors = {}
    /\ NoCall

\* the entries a refresh indexes: every event in the "global" scope
RefreshEntry(e) ==
    [id |-> <<"global", e._id>>,
     metadata |-> [Metadata(e) EXCEPT !.user_id = "global"]]

RefreshCollection(evs) == [i \in 1..Len(evs) |-> RefreshEntry(evs[i])]

batch_size == 20

\* initialize_embeddings(): reuse the collection when it exists and holds
\* entries, run a full build otherwise; ok says whether the call returned
initialize_embeddings(ok) ==
    IF ok
    THEN IF collection.exists /\ collection.entries # <<>>
         THEN UNCHANGED <<collection, indexState, builds>>
         ELSE /\ collection' = [exists |-> TRUE, entries |-> RefreshCollection(events)]
              /\ indexState' = "built"
              /\ builds' = builds + 1
    ELSE UNCHANGED <<collection, indexState, builds>>

\* main(), lines 166-171: initialize_embeddings() and its except clause, then
\* the server object
MainInit ==
    /\ pc = "main_init"
    /\ \E ok \in BOOLEAN :
          /\ initialize_embeddings(ok)
          /\ errors' = IF ok THEN errors ELSE errors \cup {"dispatcher"}
    /\ pc' = "run"
    /\ UNCHANGED <<events, tools, log, sim, rank, query, user_id, phase, cleaned,
                   filters, results, indexAtRead, hook, refresher>>

\* AfterLine as it would be if a JSONDecodeError ended the loop
AfterLineStopsOnBadJson(line) ==
    IF line.kind = "eof" \/ ~line.decodes THEN "stopped" ELSE "run"

\* where the loop of run() goes after a line: `break` at line 147 on the end
\* of the stream, the next turn otherwise (`continue` at line 154, or the end
\* of the loop body)
AfterLine(line) == IF line.kind = "eof" THEN "stopped" ELSE "run"

\* one turn of the loop of run(), lines 143-162
ReadLine ==
    /\ pc = "run"
    /\ Len(log) < MaxLines
    /\ \E i \in 1..Len(InputLines), extFails \in BOOLEAN :
          LET line == InputLines[i] IN
          /\ pc' = AfterLine(line)
          /\ log' = Append(log, [line |-> line,
                                 out |-> IF line.kind = "eof" THEN <<>>
                                         ELSE RunOutput(line, Monday, extFails)])
    /\ indexAtRead' = indexState
    /\ UNCHANGED <<events, collection, indexState, tools, sim, rank, query, user_id,
                   phase, cleaned, filters, results, hook, refresher, builds, errors>>

Frame == UNCHANGED <<events, tools, pc, log, sim, rank, query, user_id, phase,
                     cleaned, filters, results, indexAtRead, hook, builds>>

\* the startup of the process is over: the dispatcher task has run its
\* initialization, which the event loop schedules right after startup_event
StartupOver == hook = "done" /\ pc \in {"run", "stopped"}

\* periodic_refresh (app.py lines 67-78): time.sleep(1800) returns and the
\* thread calls refresh_embeddings
SleepElapses ==
    /\ refresher = "sleeping"
    /\ StartupOver
    /\ refresher' = "refreshing"
    /\ UNCHANGED <<collection, indexState, errors>>
    /\ Frame

\* refresh_embeddings: the previous collection is deleted, a new one created
\* and filled in batches
RefreshDelete ==
    /\ refresher = "refreshing"
    /\ indexState \in {"built", "failed"}
    /\ collection' = [exists |-> FALSE, entries |-> <<>>]
    /\ indexState' = "not_built"
    /\ UNCHANGED <<refresher, errors>>
    /\ Frame

RefreshCreate ==
    /\ refresher = "refreshing"
    /\ indexState = "not_built"
    /\ collection' = [exists |-> TRUE, entries |-> <<>>]
    /\ indexState' = "building"
    /\ UNCHANGED <<refresher, errors>>
    /\ Frame

RefreshInsert ==
    /\ refresher = "refreshing"
    /\ indexState = "building"
    /\ Len(collection.entries) < Len(events)
    /\ collection' = [exists |-> TRUE,
                      entries |-> Prefix(RefreshCollection(events),
                                         Len(collection.entries) + batch_size)]
    /\ UNCHANGED <<indexState, refresher, errors>>
    /\ Frame

\* refresh_embeddings returns: line 75, and the next turn of the loop
RefreshDone ==
    /\ refresher = "refreshing"
    /\ indexState = "building"
    /\ Len(collection.entries) = Len(events)
    /\ indexState' = "built"
    /\ refresher' = "sleeping"
    /\ UNCHANGED <<collection, errors>>
    /\ Frame

\* refresh_embeddings raises, before or after it deleted the collection
RefreshFail ==
    /\ refresher = "refreshing"
    /\ indexState' = IF indexState \in {"not_built", "building"} THEN "failed"
                     ELSE indexState
    /\ refresher' = "except"
    /\ UNCHANGED <<collection, errors>>
    /\ Frame

\* AfterRefreshError as it would be if the exception ended the thread
AfterRefreshErrorStops == "stopped"

\* where periodic_refresh goes after its except clause: the next turn of
\* `while True`, line 71
AfterRefreshError == "sleeping"

\* the except clause of periodic_refresh, lines 77-78: the error is logged
RefreshExcept ==
    /\ refresher = "except"
    /\ refresher' = AfterRefreshError
    /\ UNCHANGED <<collection, indexState, errors>>
    /\ Frame

Next == \/ MainInit
        \/ ReadLine
        \/ SleepElapses
        \/ RefreshDelete
        \/ RefreshCreate
        \/ RefreshInsert
        \/ RefreshDone
        \/ RefreshFail
        \/ RefreshExcept

Spec == Init /\ [][Next]_vars

(***************************************************************************)
(* Properties of the dispatcher                                            *)
(***************************************************************************)
\* the log entries whose line json.loads decoded: handle_request ran on them
Decoded(e) == e.line.kind = "line" /\ e.line.decodes

IsRequest(e) == Decoded(e) /\ e.line.value.t = "dict"

\* the id of a request: null when the request carries none
RequestIdOf(v) == IF v.t = "dict" /\ "id" \in DOMAIN v.d THEN v.d["id"] ELSE JNull

MethodIs(e, m) ==
    /\ IsRequest(e)
    /\ "method" \in DOMAIN e.line.value.d
    /\ e.line.value.d["method"] = JStr(m)

\* request.get("params", {}), line 41
ParamsOf(e) == Get(e.line.value.d, "params", JDict(EmptyDict))

ToolNameIs(e, name) ==
    /\ MethodIs(e, "tools/call")
    /\ ParamsOf(e).t = "dict"
    /\ "name" \in DOMAIN ParamsOf(e).d
    /\ ParamsOf(e).d["name"] = JStr(name)

KnownTools == {"search_events", "get_all_events"}

\* a tools/call whose params name no known tool, or a method that is
\* neither tools/list nor tools/call
UnknownToolOrMethod(e) ==
    /\ IsRequest(e)
    /\ \/ ~MethodIs(e, "tools/list") /\ ~MethodIs(e, "tools/call")
       \/ /\ MethodIs(e, "tools/call")
          /\ ParamsOf(e).t = "dict"
          /\ \A name \in KnownTools : ~ToolNameIs(e, name)

\* a tools/list, or a tools/call of a known tool with a dict of arguments
WellFormed(e) ==
    \/ MethodIs(e, "tools/list")
    \/ /\ \E name \in KnownTools : ToolNameIs(e, name)
       /\ "arguments" \in DOMAIN ParamsOf(e).d
          => ParamsOf(e).d["arguments"].t = "dict"

IsErrorResponse(r) ==
    /\ "error" \in DOMAIN r
    /\ "result" \notin DOMAIN r
    /\ DOMAIN r.error = {"code", "message"}

IsResultResponse(r) == "result" \in DOMAIN r /\ "error" \notin DOMAIN r

\* C1: every request handle_request ran on was answered by one response, and
\* that response carries the id of the request (null when the request has no
\* id), whether the response is a result or an error.
C1_IdEchoed ==
    \A i \in 1..Len(log) :
        Decoded(log[i]) =>
            /\ Len(log[i].out) = 1
            /\ log[i].out[1].id = RequestIdOf(log[i].line.value)

\* an error answer that carries a non-null id, and a result answer to a
\* request without an id
C1_Witness ==
    /\ \E i \in 1..Len(log) :
          /\ IsRequest(log[i])
          /\ IsErrorResponse(log[i].out[1])
          /\ log[i].out[1].id = JStr("b")
    /\ \E j \in 1..Len(log) :
          /\ MethodIs(log[j], "tools/list")
          /\ "id" \notin DOMAIN log[j].line.value.d
          /\ IsResultResponse(log[j].out[1])
          /\ log[j].out[1].id = JNull

\* C2: an unknown tool or method is answered by an error {code, message}
\* with the id of the request, the loop is still running after it, and every
\* well-formed request read later is answered with a result.
C2_UnknownToolAnswered ==
    \A i \in 1..Len(log) :
        UnknownToolOrMethod(log[i]) =>
            /\ Len(log[i].out) = 1
            /\ IsErrorResponse(log[i].out[1])
            /\ log[i].out[1].id = RequestIdOf(log[i].line.value)
            /\ (i = Len(log) => pc = "run")
            /\ \A j \in (i+1)..Len(log) :
                  WellFormed(log[j]) =>
                      Len(log[j].out) = 1 /\ IsResultResponse(log[j].out[1])

\* an unknown tool with an id, then a well-formed request answered
C2_Witness ==
    \E i, j \in 1..Len(log) :
        /\ i < j
        /\ UnknownToolOrMethod(log[i])
        /\ ToolNameIs(log[i], "nope")
        /\ log[i].out[1].id = JStr("b")
        /\ WellFormed(log[j])
        /\ IsResultResponse(log[j].out[1])

\* C3: a line that is no JSON prints nothing and does not stop the loop;
\* the loop has stopped exactly when the latest line read was the end of the
\* stream, and nothing is read past it.
C3_LoopStopsOnlyAtEndOfStream ==
    /\ \A i \in 1..Len(log) :
          (log[i].line.kind = "line" /\ ~log[i].line.decodes) => log[i].out = <<>>
    /\ pc = "stopped" <=> (log # <<>> /\ log[Len(log)].line.kind = "eof")
    /\ \A i \in 1..(Len(log) - 1) : log[i].line.kind # "eof"

\* a line that is no JSON, then a request answered
C3_Witness ==
    /\ Len(log) >= 2
    /\ log[1].line = BadJson
    /\ log[1].out = <<>>
    /\ Decoded(log[2])
    /\ Len(log[2].out) = 1

\* a search_events call whose perform_search raises whatever the index
\* holds: the query is no string
SearchCallThatRaises(e) ==
    /\ ToolNameIs(e, "search_events")
    /\ "arguments" \in DOMAIN ParamsOf(e).d
    /\ ParamsOf(e).d["arguments"].t = "dict"
    /\ "query" \in DOMAIN ParamsOf(e).d["arguments"].d
    /\ ParamsOf(e).d["arguments"].d["query"].t # "str"

\* C4: when perform_search fails in a search_events call, the response is
\* an error envelope: an error {code, message} and no result.
C4_SearchFailureIsErrorEnvelope ==
    \A i \in 1..Len(log) :
        SearchCallThatRaises(log[i]) =>
            Len(log[i].out) = 1 /\ IsErrorResponse(log[i].out[1])

\* the payload text of a result response
PayloadOf(r) == r.result.content[1].text

Min(a, b) == IF a < b THEN a ELSE b

\* C5: the get_all_events tool reports total_events as the length of the
\* backing list, and its events page is the first min(20, total) events in
\* list order.
C5_TotalIsStoreCount ==
    \A i \in 1..Len(log) :
        ToolNameIs(log[i], "get_all_events") =>
            /\ Len(log[i].out) = 1
            /\ IsResultResponse(log[i].out[1])
            /\ "json" \in DOMAIN PayloadOf(log[i].out[1])
            /\ PayloadOf(log[i].out[1]).json.total_events = Len(events)
            /\ PayloadOf(log[i].out[1]).json.events
                  = [k \in 1..Min(20, Len(events)) |-> events[k]]

\* the tool answered over a backing list longer than the page
C5_Witness ==
    /\ Len(events) > 20
    /\ \E i \in 1..Len(log) :
          /\ ToolNameIs(log[i], "get_all_events")
          /\ PayloadOf(log[i].out[1]).json.total_events = 21
          /\ Len(PayloadOf(log[i].out[1]).json.events) = 20

\* C6: every tools/list is answered with exactly the two descriptors
\* search_events and get_all_events, whatever the state of the index and
\* whatever was handled before, and the descriptors the server holds never
\* change.
C6_ToolsListIsTheTwoDescriptors ==
    /\ tools = ToolDescriptors
    /\ \A i \in 1..Len(log) :
          MethodIs(log[i], "tools/list") =>
              /\ Len(log[i].out) = 1
              /\ IsResultResponse(log[i].out[1])
              /\ Len(log[i].out[1].result.tools) = 2
              /\ log[i].out[1].result.tools[1].name = "search_events"
              /\ log[i].out[1].result.tools[2].name = "get_all_events"
              /\ log[i].out[1].result.tools = ToolDescriptors

\* a tools/list answered while the index was being rebuilt, after an
\* earlier request
C6_Witness ==
    /\ Len(log) >= 2
    /\ Decoded(log[1])
    /\ MethodIs(log[Len(log)], "tools/list")
    /\ indexAtRead = "building"
    /\ Len(log[Len(log)].out[1].result.tools) = 2

(***************************************************************************)
(* Direct calls of extract_filters_from_query                              *)
(***************************************************************************)
Tokens == { <<"f","r","e","e">>, <<"F","r","e","E">>, <<"p","a","i","d">>,
            <<" ">>, <<"i","n">>, <<"m","u","s","i","c">>, <<"g","a","m","i","n","g">>,
            <<"x">>, <<",">>,
            <<"t","h","i","s"," ","w","e","e","k","e","n","d">> }

RECURSIVE Flatten(_)
Flatten(ss) == IF ss = <<>> THEN <<>> ELSE Head(ss) \o Flatten(Tail(ss))

ExtractQueries ==
    { Flatten(ts) : ts \in UNION { [1..k -> Tokens] : k \in 0..MaxTokens } }
    \cup { Q_free_tech_conference }

NoServer ==
    /\ tools = ToolDescriptors
    /\ pc = "none"
    /\ log = <<>>
    /\ indexState = "built"
    /\ indexAtRead = "built"
    /\ hook = "none"
    /\ refresher = "none"
    /\ builds = 0
    /\ errors = {}

InitExtract ==
    /\ query \in ExtractQueries
    /\ phase = "ready"
    /\ user_id = ""
    /\ cleaned = <<>>
    /\ filters = EmptyDict
    /\ results = Returned(<<>>)
    /\ events = <<>>
    /\ collection = [exists |-> TRUE, entries |-> <<>>]
    /\ sim = <<>>
    /\ rank = <<>>
    /\ NoServer

\* a call extract_filters_from_query(query)
Extract ==
    /\ phase = "ready"
    /\ \E wd \in Weekdays :
          LET x == extract_filters_from_query(query, wd)
          IN  /\ cleaned' = x.q
              /\ filters' = x.f
    /\ phase' = "done"
    /\ UNCHANGED <<events, collection, indexState, tools, pc, log, sim, rank,
                   query, user_id, results, indexAtRead, hook, refresher, builds,
                   errors>>

NextExtract == Extract

SpecExtract == InitExtract /\ [][NextExtract]_vars

\* C7: a query that holds the standalone word "free" gets isFree = true
\* (unless "paid" overrides it) and a cleaned query without the standalone
\* word "free".
C7_FreeWordStripped ==
    (phase = "done" /\ HasWord(query, W_free)) =>
        /\ "isFree" \in DOMAIN filters
        /\ (filters["isFree"] = TRUE \/ ContainsCI(query, W_paid))
        /\ ~HasWord(cleaned, W_free)

T_San_Francisco == <<"S","a","n"," ","F","r","a","n","c","i","s","c","o">>
T_Technology == <<"T","e","c","h","n","o","l","o","g","y">>
T_tech_conference == <<"t","e","c","h"," ","c","o","n","f","e","r","e","n","c","e">>

\* C8 as claimed: "free tech conference in San Francisco" yields isFree =
\* true, location "San Francisco", category "Technology" and the cleaned
\* query "tech conference".
C8_AsClaimed ==
    (phase = "done" /\ query = Q_free_tech_conference) =>
        /\ cleaned = T_tech_conference
        /\ DOMAIN filters = {"isFree", "location", "category"}
        /\ filters["isFree"] = TRUE
        /\ filters["location"] = T_San_Francisco
        /\ filters["category"] = T_Technology

\* C8, amended: "free tech conference in San Francisco" yields isFree = true,
\* location "San Francisco", no category filter (and no other filter), and
\* the cleaned query "tech conference".
C8_FreeTechConference ==
    (phase = "done" /\ query = Q_free_tech_conference) =>
        /\ cleaned = T_tech_conference
        /\ DOMAIN filters = {"isFree", "location"}
        /\ filters["isFree"] = TRUE
        /\ filters["location"] = T_San_Francisco

\* the extraction ran on that query
C8_Witness ==
    /\ phase = "done"
    /\ query = Q_free_tech_conference
    /\ cleaned = T_tech_conference

(***************************************************************************)
(* Direct calls of perform_search                                          *)
(***************************************************************************)
SearchEventKinds(id) ==
    { Event(id, TRUE, T_Paris, T_Music),
      OwnedEvent(id, "u1", TRUE, T_Paris, T_Music),
      OwnedEvent(id, "u2", TRUE, T_Paris, T_Music),
      Event(id, FALSE, T_Paris, T_Music),
      Event(id, TRUE, T_Rome, T_Music),
      Event(id, TRUE, T_Paris, T_Gaming) }

SearchQueries == { Q_free_music_in_paris, Q_jazz, Q_paid_gaming }
SearchUsers == { "u1", "default" }

StoreOrders(n) ==
    { p \in [1..n -> 1..n] : \A i, j \in 1..n : i # j => p[i] # p[j] }

InitSearch ==
    /\ \E n \in 0..MaxEvents :
          /\ events \in { evs \in [1..n -> UNION { SearchEventKinds(i) : i \in 1..n }] :
                            \A i \in 1..n : evs[i]._id = i }
          /\ sim \in [1..n -> ScoreValues]
          /\ rank \in StoreOrders(n)
    /\ collection = [exists |-> TRUE, entries |-> BuildCollection(events)]
    /\ query \in SearchQueries
    /\ user_id \in SearchUsers
    /\ phase = "ready"
    /\ cleaned = <<>>
    /\ filters = EmptyDict
    /\ results = Returned(<<>>)
    /\ NoServer

\* a call perform_search(query, user_id); the filters its extraction step
\* produced are kept beside the result
Search ==
    /\ phase = "ready"
    /\ \E extFails \in BOOLEAN :
          /\ results' = perform_search(JText(query), user_id, Monday, collection.entries,
                                       collection.exists, rank, sim, extFails)
          /\ LET x == extract_filters_from_query(query, Monday)
             IN  /\ cleaned' = x.q
                 /\ filters' = x.f
    /\ phase' = "done"
    /\ UNCHANGED <<events, collection, indexState, tools, pc, log, sim, rank,
                   query, user_id, indexAtRead, hook, refresher, builds, errors>>

NextSearch == Search

SpecSearch == InitSearch /\ [][NextSearch]_vars

RetrievalKeys == {"isFree", "location", "category"}

\* C9: every metadata entry a search returns belongs to the scope "global"
\* or to the caller's scope, and equals each of the isFree, location and
\* category values the extraction produced for the query.
C9_ScopeAndFilters ==
    (phase = "done" /\ ~results.raised) =>
        \A k \in 1..Len(results.value) :
            /\ results.value[k].user_id \in {"global", user_id}
            /\ \A key \in (DOMAIN filters) \cap RetrievalKeys :
                  results.value[k][key] = filters[key]

\* a search with all three filters that returned an entry while the
\* collection held an entry of another caller's scope
C9_Witness ==
    /\ phase = "done"
    /\ ~results.raised
    /\ Len(results.value) >= 1
    /\ RetrievalKeys \subseteq DOMAIN filters
    /\ \E i \in 1..Len(collection.entries) :
          collection.entries[i].metadata.user_id \notin {"global", user_id}

InResults(md) == \E k \in 1..Len(results.value) : results.value[k] = md

\* C10: of the candidates the retrieval filter admits, a search returns
\* those whose score is at least similarity_threshold and no other: one
\* whose score equals the threshold is returned, one just below is not.
C10_ThresholdApplied ==
    (phase = "done" /\ ~results.raised) =>
        \A i \in 1..Len(collection.entries) :
            LET md == collection.entries[i].metadata IN
            WhereMatches(md, where_filter(filters, user_id)) =>
                (InResults(md) <=> sim[md._id] >= similarity_threshold)

\* the place of an event in the order the vector store returns candidates
StorePos(id) == CHOOSE i \in 1..Len(rank) : rank[i] = id

\* C11: the list a search returns is in non-increasing order of score, and
\* two entries of equal score stand in the order in which the vector store
\* returned them.
C11_SortedStable ==
    (phase = "done" /\ ~results.raised) =>
        \A a, b \in 1..Len(results.value) :
            a < b =>
                LET ia == results.value[a]._id
                    ib == results.value[b]._id
                IN  /\ sim[ia] >= sim[ib]
                    /\ (sim[ia] = sim[ib] => StorePos(ia) < StorePos(ib))

\* a search that returned two entries of equal score which the store had
\* returned in the opposite order of their place in the collection
C11_Witness ==
    /\ phase = "done"
    /\ ~results.raised
    /\ Len(results.value) >= 2
    /\ sim[results.value[1]._id] = sim[results.value[2]._id]
    /\ results.value[1]._id > results.value[2]._id

(***************************************************************************)
(* The service process of app.py: the import of search.py, startup_event,  *)
(* the dispatcher task, the periodic_refresh thread and the routes         *)
(***************************************************************************)
InitService ==
    /\ \E n \in StoreSizes \ {0} :
          /\ events = SampleEvents(n)
          /\ sim = [i \in 1..n |-> SampleScore(i)]
          /\ rank = [i \in 1..n |-> n + 1 - i]
    /\ collection = [exists |-> FALSE, entries |-> <<>>]
    /\ indexState = "not_built"
    /\ tools = ToolDescriptors
    /\ pc = "not_started"
    /\ log = <<>>
    /\ indexAtRead = "not_built"
    /\ hook = "importing"
    /\ refresher = "not_started"
    /\ builds = 0
    /\ errors = {}
    /\ query \in SearchQueries
    /\ user_id \in SearchUsers
    /\ phase = "ready"
    /\ cleaned = <<>>
    /\ filters = EmptyDict
    /\ results = Returned(<<>>)

\* `from components.search.search import ...` (app.py line 12) runs the module
\* level of search.py: the collection is created (lines 27-33) and every
\* event embedded and added (lines 204-251)
ImportSearchModule ==
    /\ hook = "importing"
    /\ collection' = [exists |-> TRUE, entries |-> BuildCollection(events)]
    /\ indexState' = "built"
    /\ builds' = builds + 1
    /\ hook' = "initialize"
    /\ UNCHANGED <<events, tools, pc, log, sim, rank, query, user_id, phase, cleaned,
                   filters, results, indexAtRead, refresher, errors>>

\* startup_event, lines 90-96: initialize_embeddings() and its except clause
HookInitialize ==
    /\ hook = "initialize"
    /\ \E ok \in BOOLEAN :
          /\ initialize_embeddings(ok)
          /\ errors' = IF ok THEN errors ELSE errors \cup {"startup"}
    /\ hook' = "thread"
    /\ UNCHANGED <<events, tools, pc, log, sim, rank, query, user_id, phase, cleaned,
                   filters, results, indexAtRead, refresher>>

\* startup_event, lines 99-104: the refresh thread is started
HookStartThread ==
    /\ hook = "thread"
    /\ refresher' = "sleeping"
    /\ hook' = "mcp"
    /\ UNCHANGED <<events, collection, indexState, tools, pc, log, sim, rank, query,
                   user_id, phase, cleaned, filters, results, indexAtRead, builds,
                   errors>>

\* startup_event, lines 107-114: the dispatcher task is created
HookStartMcp ==
    /\ hook = "mcp"
    /\ pc' = "main_init"
    /\ hook' = "done"
    /\ UNCHANGED <<events, collection, indexState, tools, log, sim, rank, query,
                   user_id, phase, cleaned, filters, results, indexAtRead, refresher,
                   builds, errors>>

\* run(), lines 145-147: readline() returns the end of the stream, which
\* frees the event loop for the routes
ReadEndOfStream ==
    /\ pc = "run"
    /\ Len(log) < MaxLines
    /\ pc' = AfterLine(EndOfStream)
    /\ log' = Append(log, [line |-> EndOfStream, out |-> <<>>])
    /\ indexAtRead' = indexState
    /\ UNCHANGED <<events, collection, indexState, tools, sim, rank, query, user_id,
                   phase, cleaned, filters, results, hook, refresher, builds, errors>>

\* a search once the startup is over: perform_search called by the
\* search_events tool (mcp_server.py line 80) or by POST /search (app.py
\* line 133)
ServeSearch ==
    /\ StartupOver
    /\ Search

\* POST /refresh-embeddings (app.py lines 179-192), served by the event loop
\* while the refresh thread sleeps: refresh_embeddings() returns, or raises
\* after it deleted the collection
ManualRefresh ==
    /\ hook = "done"
    /\ pc = "stopped"
    /\ refresher = "sleeping"
    /\ \E ok \in BOOLEAN :
          IF ok
          THEN /\ collection' = [exists |-> TRUE, entries |-> RefreshCollection(events)]
               /\ indexState' = "built"
          ELSE /\ collection' = [exists |-> FALSE, entries |-> <<>>]
               /\ indexState' = "failed"
    /\ UNCHANGED <<refresher, errors>>
    /\ Frame

StartupHook == \/ ImportSearchModule
               \/ HookInitialize
               \/ HookStartThread
               \/ HookStartMcp

Dispatcher == \/ MainInit
              \/ ReadEndOfStream

PeriodicRefresh == \/ SleepElapses
                   \/ RefreshDelete
                   \/ RefreshCreate
                   \/ RefreshInsert
                   \/ RefreshDone
                   \/ RefreshFail
                   \/ RefreshExcept

NextService == \/ StartupHook
               \/ Dispatcher
               \/ PeriodicRefresh
               \/ ServeSearch
               \/ ManualRefresh

SpecService == InitService /\ [][NextService]_vars

\* the event loop runs the startup hook and the dispatcher task, the
\* operating system the refresh thread, and time.sleep returns
SpecServiceLive ==
    /\ SpecService
    /\ WF_vars(StartupHook)
    /\ WF_vars(Dispatcher)
    /\ WF_vars(PeriodicRefresh)

CompleteIndex ==
    /\ collection.exists
    /\ collection.entries \in {BuildCollection(events), RefreshCollection(events)}

\* C13: a search that runs while a refresh is under way reads a complete
\* index, the one from before the refresh or the one from after it, and
\* never a missing, empty or partly filled collection.
C13_SearchSeesCompleteIndex ==
    [][(refresher = "refreshing" /\ phase = "ready" /\ phase' = "done")
          => CompleteIndex]_vars

CategoriesIn(q) == { k \in 1..Len(categories) : ContainsCI(q, categories[k]) }

Max(S) == CHOOSE m \in S : \A k \in S : k <= m

\* C15: the category filter is the title-cased name of the last entry of the
\* vocabulary, in its fixed order, that the query holds as a substring, and
\* a query that holds none gets no category filter.
C15_LastCategoryWins ==
    phase = "done" =>
        IF CategoriesIn(query) = {}
        THEN "category" \notin DOMAIN filters
        ELSE /\ "category" \in DOMAIN filters
             /\ filters["category"] = StrTitle(categories[Max(CategoriesIn(query))])

\* the query as the free and paid steps leave it, which the location step reads
AfterPrice(q) == StepPaid(StepFree(XState(q, EmptyDict))).q

\* the words that follow an "in" at w[i..]: the run of letters and white
\* space after it, trimmed and title-cased
WordsAfterIn(w, i) == StrTitle(StrStrip(SubSeq(w, i + 2, RunEnd(w, i + 2))))

\* C16: a location filter is a non-empty string, the title-cased and trimmed
\* words that follow the standalone word "in", and a query without the
\* standalone word "in" gets no location filter.
C16_LocationFollowsIn ==
    (phase = "done" /\ "location" \in DOMAIN filters) =>
        /\ filters["location"] # <<>>
        /\ HasWord(query, W_in)
        /\ \E i \in 1..Len(AfterPrice(query)) :
              /\ MatchAtCI(AfterPrice(query), i, W_in)
              /\ WordBoundaries(AfterPrice(query), i, W_in)
              /\ filters["location"] = WordsAfterIn(AfterPrice(query), i)

\* the answer to log entry e is a search_events payload that encodes the
\* response data (the search did not fail)
SearchPayload(e) ==
    /\ ToolNameIs(e, "search_events")
    /\ Len(e.out) = 1
    /\ IsResultResponse(e.out[1])
    /\ "json" \in DOMAIN PayloadOf(e.out[1])

\* C17: in every search_events payload of a search that succeeded,
\* results_count is the length of the payload's events list, and that list
\* holds 10 entries at most, whatever the collection holds.
C17_CountIsListLength ==
    \A i \in 1..Len(log) :
        SearchPayload(log[i]) =>
            /\ PayloadOf(log[i].out[1]).json.results_count
                  = Len(PayloadOf(log[i].out[1]).json.events)
            /\ Len(PayloadOf(log[i].out[1]).json.events) <= 10

\* a search answered with 10 events from a collection in which more than 10
\* entries satisfy its filter
C17_Witness ==
    \E i \in 1..Len(log) :
        /\ SearchPayload(log[i])
        /\ log[i].line.value.d["id"] = JNum(3)
        /\ PayloadOf(log[i].out[1]).json.results_count = 10
        /\ Cardinality({ k \in 1..Len(collection.entries) :
                           collection.entries[k].metadata.user_id = "global" }) > 10


====
